---- MODULE Spec2Model ----
(***************************************************************************)
(* Model of the gemini-bot session/quota core: GeminiAgent (src/agent.py), *)
(* the Bot event handlers and the BotCog commands and sweep (src/bot.py),  *)
(* and the helpers of src/utils.py.  One asyncio event loop runs the       *)
(* handlers; a handler runs atomically from one await to the next, so each *)
(* action below is the code between two suspension points.                 *)
(***************************************************************************)
EXTENDS Integers, Sequences, FiniteSets, TLC

\* ------------------------------------------------------------------ bounds
\* Configuration values handed to the constructors, and the size of a run.
DailyLimit == 1
ChatTtl == 1
MaxRequests == 2

Users == {"alice", "bob"}
Owner == "alice"

\* Prompt lengths tried: empty and shortest; and, for the prompt check alone,
\* the lengths around 1000 too.
PromptLens == {0, 1}
LongPromptLens == {0, 1, 999, 1000}

\* Wall-clock instants (seconds) datetime.now() can return in a run: idle
\* durations of one second more than the TTL, of a whole hour more and of
\* less than the TTL occur; with the finer clock, of exactly the TTL too.
Instants == {0, 3600 * ChatTtl + 1, 3600 * (ChatTtl + 1)}
FineInstants == Instants \cup {1}
\* The start of the process and the same time of day 24 hours later.
DayInstants == {0, 24 * 3600}

NoChat == 0
None == -1

VARIABLES
    request_count,  \* GeminiAgent.__request_count
    client,         \* GeminiAgent.__client: "Client" or, after set_model, "str"
    chats,          \* GeminiAgent.__chats: the dict, as its items in insertion order
    chatObjs,       \* the Chat objects ever constructed; a Chat's identity is its index
    reqs,           \* the on_message tasks suspended at an await, in arrival order
    started,        \* how many on_message tasks have been started
    dispatched,     \* how many backend calls have returned a response
    last,           \* the handler that finished last: a task as it was when it
                    \* replied (but for its prompt), or a run of the sweep
    now             \* the wall clock

vars == <<request_count, client, chats, chatObjs, reqs, started, dispatched, last, now>>

\* ------------------------------------------------------------- dict helpers
IndexOf(d, k) ==
    IF \E i \in 1..Len(d) : d[i].key = k
    THEN CHOOSE i \in 1..Len(d) : d[i].key = k
    ELSE 0

DictGet(d, k) == IF IndexOf(d, k) = 0 THEN NoChat ELSE d[IndexOf(d, k)].chat

DictSet(d, k, v) ==
    IF IndexOf(d, k) = 0
    THEN Append(d, [key |-> k, chat |-> v])
    ELSE [d EXCEPT ![IndexOf(d, k)] = [key |-> k, chat |-> v]]

DictPop(d, k) == SelectSeq(d, LAMBDA e : e.key # k)

\* ----------------------------------------------------------- src/agent.py
\* __validate_request_limit: TRUE when the request is admitted.
validate_request_limit_strict == request_count + 1 < DailyLimit
validate_request_limit == request_count + 1 <= DailyLimit

get_chat_for_user(username) == DictGet(chats, username)

\* store_chat: self.chats[chat.username] = chat, for a chat that is not None.
store_chat(d, username, chat) == IF chat # NoChat THEN DictSet(d, username, chat) ELSE d

remove_chat(d, username) == DictPop(d, username)

\* ----------------------------------------------------------- src/utils.py
\* Seconds s (below 32382) for which the double s/3600 lies under the decimal
\* tie x.xx5, so that round(.., 2) goes down where half-up would go up.
FloatTiesBelow == {3582}

get_time_delta(start, end) ==
    IF end = None \/ start = None THEN None
    ELSE LET s == IF end < start THEN start - end ELSE end - start
             half_up == (s + 18) \div 36
             hundredths == IF s \in FloatTiesBelow THEN half_up - 1 ELSE half_up
         IN hundredths \div 100


ALLOWED_FILE_TYPES ==
    [ct \in {"application/pdf", "text/plain; charset=utf-8", "image/png",
             "audio/mp3", "video/mp4"} |-> ct # "application/pdf"]

ContentTypes == DOMAIN ALLOWED_FILE_TYPES \cup {"application/zip"}

\* ------------------------------------------------------- src/exception.py
NoException == [class |-> "none", message |-> ""]
DoneForTheDayException ==
    [class |-> "DoneForTheDayException", message |-> "Daily limit has been reached."]
FileProcessingException(message) ==
    [class |-> "FileProcessingException", message |-> message]
DiscordException(message) == [class |-> "DiscordException", message |-> message]
\* Exceptions of the runtime and of the collaborators.
AttributeError == [class |-> "AttributeError", message |-> "object has no attribute"]
BackendError == [class |-> "BackendError", message |-> "backend call failed"]
HTTPException == [class |-> "HTTPException", message |-> "download failed"]
\* genai.delete_file, called by File.close (models.py 20), fails: on the
\* first call, or on the second call for a name that is already deleted.
\* The message is the library's; the model has one attachment name, file1.bin.
DeleteFileError(message) == [class |-> "DeleteFileError", message |-> message]
\* logging.Logger.makeRecord on an `extra` that carries a key of LogRecord;
\* the message is str() of the KeyError, which keeps the quotes of repr().
KeyError ==
    [class |-> "KeyError",
     message |-> "\"Attempt to overwrite 'filename' in LogRecord\""]

\* get_file: the exception it raises and the value it returns ("None" is the
\* Python None the audio and video branches return, "File" a File instance).
\* Of the supported types tried, text/plain alone reaches the default case.
get_file(content_type, decodable) ==
    LET is_supported == IF content_type \in DOMAIN ALLOWED_FILE_TYPES
                        THEN ALLOWED_FILE_TYPES[content_type] ELSE FALSE
    IN IF ~is_supported
       THEN [raised |-> FileProcessingException("That filetype is not supported."),
             file |-> "unset"]
       ELSE IF content_type = "image/png"
       THEN IF decodable
            THEN [raised |-> NoException, file |-> "File"]
            ELSE [raised |-> FileProcessingException("cannot identify image file"),
                  file |-> "unset"]
       ELSE IF content_type \in {"audio/mp3", "video/mp4"}
       THEN [raised |-> NoException, file |-> "None"]
       ELSE [raised |-> FileProcessingException(
                            "Invalid file type. text/plain; charset=utf-8"),
             file |-> "unset"]

\* ------------------------------------------------------------- src/bot.py
\* The prompt check of on_message (a prompt is modelled by its length).
invalid_prompt_upto_one(prompt) == prompt = 0 \/ prompt <= 1
invalid_prompt_unless_exhausted(prompt) ==
    validate_request_limit /\ (prompt = 0 \/ prompt < 1)
invalid_prompt(prompt) == prompt = 0 \/ prompt < 1

\* What on_message's except clauses reply for an exception that reaches them.
on_message_reply(e) ==
    IF e.class = "DoneForTheDayException"
    THEN "I am done for the day. Check back later."
    ELSE IF e.class = "DiscordException" THEN e.message
    ELSE "unhandled"

\* Bot.process_chat_prompt / Bot.process_file_prompt: every exception of the
\* agent call is re-raised as a DiscordException carrying its text.
bot_reraise(e) == DiscordException(e.message)

NewRequest(username, prompt) ==
    [username |-> username, prompt |-> prompt, request_type |-> "None",
     content_type |-> "", pc |-> "done", start_time |-> None,
     chat |-> NoChat, created |-> FALSE, backend |-> "none",
     raised |-> NoException, reply |-> "", file |-> "unset", closes |-> 0]

Finish(r, e) ==
    [r EXCEPT !.pc = "done", !.raised = e, !.reply = on_message_reply(bot_reraise(e))]

RemoveAt(s, i) == SubSeq(s, 1, i - 1) \o SubSeq(s, i + 1, Len(s))

\* src/models.py Chat.  A Chat that neither the dict nor a suspended task
\* refers to is garbage: nothing can read its fields again.
NewChat(username, session) ==
    [username |-> username, session |-> session, creation_time |-> now,
     last_message |-> None]
Garbage == [username |-> "", session |-> 0, creation_time |-> None, last_message |-> None]

Collect(objs, d, tasks) ==
    [c \in DOMAIN objs |->
        IF \/ \E i \in 1..Len(d) : d[i].chat = c
           \/ \E i \in 1..Len(tasks) : tasks[i].chat = c
        THEN objs[c] ELSE Garbage]

\* The Chat stored for a user, Garbage when there is none.
Session(username) ==
    IF get_chat_for_user(username) = NoChat THEN Garbage
    ELSE chatObjs[get_chat_for_user(username)]

TypeOK ==
    /\ request_count \in Nat
    /\ client \in {"Client", "str"}
    /\ now \in FineInstants \cup DayInstants
    /\ started \in 0..MaxRequests
    /\ dispatched \in 0..MaxRequests
    /\ \A i \in 1..Len(chats) : chats[i].chat \in 1..Len(chatObjs)
    /\ \A i \in 1..Len(reqs) : reqs[i].pc \in {"to_file", "backend"}
    /\ Len(reqs) <= started

Init ==
    /\ request_count = 0
    /\ client = "Client"
    /\ chats = <<>>
    /\ chatObjs = <<>>
    /\ reqs = <<>>
    /\ started = 0
    /\ dispatched = 0
    /\ last = NewRequest("", 0)
    /\ now = 0

\* GeminiAgent.process_chat_prompt up to its await: the quota check, the
\* lookup, and the creation and storing of a Chat for a user who has none.
\* Yields the request record, the dict and the Chat objects after it.
process_chat_prompt_always_new(r) ==
    IF ~validate_request_limit
    THEN [req |-> Finish(r, DoneForTheDayException), chats |-> chats, objs |-> chatObjs]
    ELSE LET new == Len(chatObjs) + 1
             objs == Append(chatObjs, NewChat(r.username, new))
         IN [req |-> [r EXCEPT !.pc = "backend", !.backend = "pending",
                               !.chat = new, !.created = TRUE],
             chats |-> store_chat(chats, objs[new].username, new), objs |-> objs]
process_chat_prompt_create_first(r) ==
    LET chat == get_chat_for_user(r.username)
        new == Len(chatObjs) + 1
        objs == IF chat = NoChat THEN Append(chatObjs, NewChat(r.username, new))
                ELSE chatObjs
        used == IF chat = NoChat THEN new ELSE chat
        d == store_chat(chats, r.username, used)
    IN IF ~validate_request_limit
       THEN [req |-> Finish(r, DoneForTheDayException), chats |-> d, objs |-> objs]
       ELSE [req |-> [r EXCEPT !.pc = "backend", !.backend = "pending",
                               !.chat = used, !.created = (chat = NoChat)],
             chats |-> d, objs |-> objs]
process_chat_prompt(r) ==
    IF ~validate_request_limit
    THEN [req |-> Finish(r, DoneForTheDayException), chats |-> chats, objs |-> chatObjs]
    ELSE LET chat == get_chat_for_user(r.username)
         IN IF chat # NoChat
            THEN [req |-> [r EXCEPT !.pc = "backend", !.backend = "pending",
                                    !.chat = chat],
                  chats |-> chats, objs |-> chatObjs]
            ELSE IF client # "Client"
            THEN [req |-> Finish(r, AttributeError), chats |-> chats, objs |-> chatObjs]
            ELSE LET new == Len(chatObjs) + 1
                     objs == Append(chatObjs, NewChat(r.username, new))
                 IN [req |-> [r EXCEPT !.pc = "backend", !.backend = "pending",
                                       !.chat = new, !.created = TRUE],
                     chats |-> store_chat(chats, objs[new].username, new),
                     objs |-> objs]

\* A new task enters the loop with record r (it may have replied already);
\* the suspended task i goes on, or replies and ends, with record r.
Start(r) ==
    /\ started' = started + 1
    /\ IF r.pc = "done"
       THEN reqs' = reqs /\ last' = [r EXCEPT !.prompt = 0]
       ELSE reqs' = Append(reqs, r) /\ UNCHANGED last

Continue(i, r) ==
    /\ UNCHANGED started
    /\ IF r.pc = "done"
       THEN reqs' = RemoveAt(reqs, i) /\ last' = [r EXCEPT !.prompt = 0]
       ELSE reqs' = [reqs EXCEPT ![i] = r] /\ UNCHANGED last

\* Bot.on_message for a message that mentions the bot, up to the first await
\* of the request.  prompt is the length of the text after the mention, None
\* when the message is the mention alone (no "> " to split at).
on_message(username, prompt, attachments) ==
    /\ started < MaxRequests
    /\ LET r0 == NewRequest(username, prompt)
       IN IF prompt = None
          THEN /\ Start([r0 EXCEPT !.reply = "No prompt was provided."])
               /\ UNCHANGED <<chats, chatObjs>>
          ELSE IF invalid_prompt(prompt)
          THEN /\ Start([r0 EXCEPT !.reply = "Invalid prompt"])
               /\ UNCHANGED <<chats, chatObjs>>
          ELSE LET r1 == [r0 EXCEPT !.start_time = now]
               IN IF attachments > 1
                  THEN /\ Start([r1 EXCEPT !.reply =
                                      "Only one file can be processed at a time."])
                       /\ UNCHANGED <<chats, chatObjs>>
                  ELSE IF attachments = 1
                  THEN /\ Start([r1 EXCEPT !.request_type = "vision",
                                           !.pc = "to_file"])
                       /\ UNCHANGED <<chats, chatObjs>>
                  ELSE LET out == process_chat_prompt(
                                      [r1 EXCEPT !.request_type = "chat"])
                       IN /\ Start(out.req)
                          /\ chats' = out.chats
                          /\ chatObjs' = out.objs
    /\ UNCHANGED <<request_count, client, dispatched, now>>

\* The backend answers a chat request: agent.py lines 143-153 after the await.
ChatBackendOk_restore(i) ==
    LET r == [reqs[i] EXCEPT !.pc = "done", !.backend = "ok", !.reply = "content"]
    IN /\ Continue(i, r)
       /\ chats' = store_chat(chats, r.username, r.chat)
       /\ chatObjs' = Collect([chatObjs EXCEPT ![r.chat].last_message = now],
                              chats', RemoveAt(reqs, i))
       /\ request_count' = request_count + 1
       /\ dispatched' = dispatched + 1
       /\ UNCHANGED <<client, now>>
ChatBackendOk_setdefault(i) ==
    LET r == [reqs[i] EXCEPT !.pc = "done", !.backend = "ok", !.reply = "content"]
    IN /\ Continue(i, r)
       /\ chats' = IF get_chat_for_user(r.username) = NoChat
                   THEN store_chat(chats, r.username, r.chat) ELSE chats
       /\ chatObjs' = Collect([chatObjs EXCEPT ![r.chat].last_message = now],
                              chats', RemoveAt(reqs, i))
       /\ request_count' = request_count + 1
       /\ dispatched' = dispatched + 1
       /\ UNCHANGED <<client, now>>
ChatBackendOk_body(i) ==
    LET r == [reqs[i] EXCEPT !.pc = "done", !.backend = "ok", !.reply = "content"]
    IN /\ Continue(i, r)
       /\ chatObjs' = Collect([chatObjs EXCEPT ![r.chat].last_message = now],
                              chats, RemoveAt(reqs, i))
       /\ request_count' = request_count + 1
       /\ dispatched' = dispatched + 1
       /\ UNCHANGED <<client, chats, now>>

ChatBackendOk(i) ==
    /\ reqs[i].request_type = "chat"
    /\ reqs[i].pc = "backend"
    /\ ChatBackendOk_body(i)

\* The backend call of a chat request raises: nothing after the await runs.
ChatBackendFailed_counting(i) ==
    /\ Continue(i, [Finish(reqs[i], BackendError) EXCEPT !.backend = "failed"])
    /\ chatObjs' = Collect(chatObjs, chats, RemoveAt(reqs, i))
    /\ request_count' = request_count + 1
    /\ UNCHANGED <<client, chats, dispatched, now>>
ChatBackendFailed_rollback(i) ==
    /\ Continue(i, [Finish(reqs[i], BackendError) EXCEPT !.backend = "failed"])
    /\ chats' = IF reqs[i].created THEN remove_chat(chats, reqs[i].username) ELSE chats
    /\ chatObjs' = Collect(chatObjs, chats', RemoveAt(reqs, i))
    /\ UNCHANGED <<request_count, client, dispatched, now>>
ChatBackendFailed_body(i) ==
    /\ Continue(i, [Finish(reqs[i], BackendError) EXCEPT !.backend = "failed"])
    /\ chatObjs' = Collect(chatObjs, chats, RemoveAt(reqs, i))
    /\ UNCHANGED <<request_count, client, chats, dispatched, now>>

ChatBackendFailed(i) ==
    /\ reqs[i].request_type = "chat"
    /\ reqs[i].pc = "backend"
    /\ ChatBackendFailed_body(i)

\* attachment.to_file() returns: get_file, then GeminiAgent.process_file_prompt
\* up to its await (bot.py 178-183, agent.py 169-172).
ToFileOk(i, content_type, decodable) ==
    /\ reqs[i].pc = "to_file"
    /\ LET r == [reqs[i] EXCEPT !.content_type = content_type]
           got == get_file(content_type, decodable)
       IN Continue(i,
             IF got.raised # NoException THEN Finish(r, got.raised)
             ELSE LET rf == [r EXCEPT !.file = got.file]
                  IN IF ~validate_request_limit THEN Finish(rf, DoneForTheDayException)
                     ELSE IF client # "Client" \/ got.file = "None"
                     THEN Finish(rf, AttributeError)
                     ELSE [rf EXCEPT !.pc = "backend", !.backend = "pending"])
    /\ UNCHANGED <<request_count, client, chats, chatObjs, dispatched, now>>

\* attachment.to_file() raises (the download failed).
ToFileFailed(i) ==
    /\ reqs[i].pc = "to_file"
    /\ Continue(i, Finish(reqs[i], HTTPException))
    /\ UNCHANGED <<request_count, client, chats, chatObjs, dispatched, now>>

\* The backend answers a file request.  What follows, in the order of the
\* code, with the point at which it ends:
\*   file.close() in the agent (agent.py 174), whose genai.delete_file
\*     (models.py 20) may raise: the request ends with that error;
\*   the log call of agent.py 175-183, whose `extra` has the key filename.
\*     gemini_agent_logger is imported from logger.py, which does not define
\*     it: on a logger enabled for INFO makeRecord raises KeyError and the
\*     request ends with it, on a logger that drops the record the call
\*     returns;
\*   file.close() in the Bot (bot.py 185), on the File that is already
\*     closed, whose genai.delete_file may raise: the request ends with that
\*     error;
\*   the content is replied.
\* Every exception is re-raised by the Bot (bot.py 187-188) and its text is
\* replied (bot.py 135).  closes counts the calls of File.close.
VisionOutcomes == {"delete_raises", "log_raises", "second_delete_raises", "returns"}

VisionAnswered(r, outcome) ==
    IF outcome = "delete_raises"
    THEN [Finish(r, DeleteFileError("delete_file failed: file1.bin"))
             EXCEPT !.backend = "ok", !.closes = @ + 1]
    ELSE IF outcome = "log_raises"
    THEN [Finish(r, KeyError) EXCEPT !.backend = "ok", !.closes = @ + 1]
    ELSE IF outcome = "second_delete_raises"
    THEN [Finish(r, DeleteFileError("file not found: file1.bin"))
             EXCEPT !.backend = "ok", !.closes = @ + 2]
    ELSE [r EXCEPT !.pc = "done", !.backend = "ok", !.closes = @ + 2,
                   !.reply = "content"]

VisionBackendOk_touching(i) ==
    /\ reqs[i].request_type = "vision"
    /\ reqs[i].pc = "backend"
    /\ \E outcome \in VisionOutcomes : Continue(i, VisionAnswered(reqs[i], outcome))
    /\ dispatched' = dispatched + 1
    /\ chatObjs' = IF get_chat_for_user(reqs[i].username) = NoChat THEN chatObjs
                   ELSE [chatObjs EXCEPT
                            ![get_chat_for_user(reqs[i].username)].last_message = now]
    /\ UNCHANGED <<request_count, client, chats, now>>
VisionBackendOk(i) ==
    /\ reqs[i].request_type = "vision"
    /\ reqs[i].pc = "backend"
    /\ \E outcome \in VisionOutcomes : Continue(i, VisionAnswered(reqs[i], outcome))
    /\ dispatched' = dispatched + 1
    /\ UNCHANGED <<request_count, client, chats, chatObjs, now>>

VisionBackendFailed(i) ==
    /\ reqs[i].request_type = "vision"
    /\ reqs[i].pc = "backend"
    /\ Continue(i, [Finish(reqs[i], BackendError) EXCEPT !.backend = "failed"])
    /\ UNCHANGED <<request_count, client, chats, chatObjs, dispatched, now>>

\* Bot.on_member_remove.
on_member_remove(member, is_bot) ==
    /\ chats' = IF ~is_bot THEN remove_chat(chats, member) ELSE chats
    /\ chatObjs' = Collect(chatObjs, chats', reqs)
    /\ UNCHANGED <<request_count, client, reqs, started, dispatched, last, now>>

\* GeminiAgent.remove_all_chats: the dict after self.chats.clear(), and the
\* value the call returns (the method has no return statement).
remove_all_chats_popitem(d) == IF d = <<>> THEN d ELSE SubSeq(d, 1, Len(d) - 1)
remove_all_chats(d) == <<>>
remove_all_chats_returned(d) == None

\* BotCog.erase_chats.
erase_chats(author) ==
    /\ chats' = IF author = Owner THEN remove_all_chats(chats) ELSE chats
    /\ chatObjs' = Collect(chatObjs, chats', reqs)
    /\ UNCHANGED <<request_count, client, reqs, started, dispatched, last, now>>

\* BotCog.set_chat_model -> GeminiAgent.set_model, which assigns the model
\* name (a str) to the client attribute.
set_chat_model(author) ==
    /\ client' = IF author = Owner THEN "str" ELSE client
    /\ UNCHANGED <<request_count, chats, chatObjs, reqs, started, dispatched, last, now>>

\* The loop of erase_old_chats over the dict's items, from item i of the dict
\* `items` it started on; d is the dict as changed so far.  A duration of None
\* makes `duration > chat_ttl` raise TypeError; a removal makes the dict
\* iterator raise RuntimeError when it is next advanced.
TypeError == [class |-> "TypeError", message |-> "'>' not supported"]
RuntimeError ==
    [class |-> "RuntimeError", message |-> "dictionary changed size during iteration"]

\* The test of bot.py line 249 on a duration that is not None.
exceeds_ttl_or_equals(duration) == duration >= ChatTtl
exceeds_ttl(duration) == duration > ChatTtl

RECURSIVE erase_old_chats_loop(_, _, _)
erase_old_chats_loop(items, i, d) ==
    IF Len(d) # Len(items) THEN [chats |-> d, raised |-> RuntimeError]
    ELSE IF i > Len(items) THEN [chats |-> d, raised |-> NoException]
    ELSE LET duration == get_time_delta(chatObjs[items[i].chat].last_message, now)
         IN IF duration = None THEN [chats |-> d, raised |-> TypeError]
            ELSE IF exceeds_ttl(duration)
            THEN erase_old_chats_loop(items, i + 1, remove_chat(d, items[i].key))
            ELSE erase_old_chats_loop(items, i + 1, d)

erase_old_chats ==
    /\ LET out == erase_old_chats_loop(chats, 1, chats)
       IN /\ chats' = out.chats
          /\ last' = [NewRequest("", 0) EXCEPT !.request_type = "sweep",
                                               !.raised = out.raised]
    /\ chatObjs' = Collect(chatObjs, chats', reqs)
    /\ UNCHANGED <<request_count, client, reqs, started, dispatched, now>>

\* Time passes between two handlers.
Tick(instants) ==
    /\ \E t \in instants : t > now /\ now' = t
    /\ UNCHANGED <<request_count, client, chats, chatObjs, reqs, started, dispatched, last>>

Next ==
    \/ \E u \in Users, p \in PromptLens \cup {None}, a \in 0..2 : on_message(u, p, a)
    \/ \E i \in 1..Len(reqs) : ChatBackendOk(i)
    \/ \E i \in 1..Len(reqs) : ChatBackendFailed(i)
    \/ \E i \in 1..Len(reqs), ct \in ContentTypes, decodable \in BOOLEAN :
          ToFileOk(i, ct, decodable)
    \/ \E i \in 1..Len(reqs) : ToFileFailed(i)
    \/ \E i \in 1..Len(reqs) : VisionBackendOk(i)
    \/ \E i \in 1..Len(reqs) : VisionBackendFailed(i)
    \/ \E u \in Users, is_bot \in BOOLEAN : on_member_remove(u, is_bot)
    \/ \E author \in Users : erase_chats(author)
    \/ \E author \in Users : set_chat_model(author)
    \/ erase_old_chats
    \/ Tick(Instants)
Spec == Init /\ [][Next]_vars

\* Text requests, member departures and the sweep under the finer clock.
ClockNext ==
    \/ \E u \in Users : on_message(u, 1, 0)
    \/ \E i \in 1..Len(reqs) : ChatBackendOk(i)
    \/ \E i \in 1..Len(reqs) : ChatBackendFailed(i)
    \/ \E u \in Users : on_member_remove(u, FALSE)
    \/ erase_old_chats
    \/ Tick(FineInstants)
ClockSpec == Init /\ [][ClockNext]_vars

\* Requests of every kind with the long prompts, at one instant and with no
\* command or sweep between them.
PromptNext ==
    \/ \E u \in Users, p \in LongPromptLens \cup {None}, a \in 0..2 :
          on_message(u, p, a)
    \/ \E i \in 1..Len(reqs) : ChatBackendOk(i)
    \/ \E i \in 1..Len(reqs) : ChatBackendFailed(i)
    \/ \E i \in 1..Len(reqs), ct \in ContentTypes, decodable \in BOOLEAN :
          ToFileOk(i, ct, decodable)
    \/ \E i \in 1..Len(reqs) : ToFileFailed(i)
    \/ \E i \in 1..Len(reqs) : VisionBackendOk(i)
    \/ \E i \in 1..Len(reqs) : VisionBackendFailed(i)
PromptSpec == Init /\ [][PromptNext]_vars

\* Text requests issued one after another, each answered by the backend.
SeqNext ==
    \/ reqs = <<>> /\ \E u \in Users : on_message(u, 1, 0)
    \/ \E i \in 1..Len(reqs) : ChatBackendOk(i)
    \/ \E u \in Users : on_member_remove(u, FALSE)
    \/ \E author \in Users : erase_chats(author)
    \/ erase_old_chats
    \/ Tick(Instants)
SeqSpec == Init /\ [][SeqNext]_vars

\* Text requests and the erase_chats command alone: a Chat leaves the dict
\* only through remove_all_chats.
EraseNext ==
    \/ \E u \in Users : on_message(u, 1, 0)
    \/ \E i \in 1..Len(reqs) : ChatBackendOk(i)
    \/ \E i \in 1..Len(reqs) : ChatBackendFailed(i)
    \/ \E author \in Users : erase_chats(author)
    \/ Tick(Instants)
EraseSpec == Init /\ [][EraseNext]_vars

\* Text requests and the scheduled task over two days.
DayNext ==
    \/ \E u \in Users : on_message(u, 1, 0)
    \/ \E i \in 1..Len(reqs) : ChatBackendOk(i)
    \/ \E i \in 1..Len(reqs) : ChatBackendFailed(i)
    \/ erase_old_chats
    \/ Tick(DayInstants)
DaySpec == Init /\ [][DayNext]_vars

\* Text requests with removals that come while a request is suspended: a
\* member leaves while a request of theirs waits for the backend; the owner's
\* command and the sweep run while some request waits.
RaceNext ==
    \/ \E u \in Users : on_message(u, 1, 0)
    \/ \E i \in 1..Len(reqs) : ChatBackendOk(i)
    \/ \E u \in Users :
          /\ \E i \in 1..Len(reqs) : reqs[i].username = u /\ reqs[i].pc = "backend"
          /\ on_member_remove(u, FALSE)
    \/ reqs # <<>> /\ erase_chats(Owner)
    \/ reqs # <<>> /\ erase_old_chats
    \/ Tick(Instants)
RaceSpec == Init /\ [][RaceNext]_vars


\* ------------------------------------------------------------------ claims
\* C1: with text requests issued one after another and every backend call
\* answered, the first DailyLimit calls are admitted and counted, and every
\* later call is rejected with DoneForTheDayException while request_count
\* stays DailyLimit.
C1_SequentialCallsAdmitExactlyLimit ==
    /\ request_count <= DailyLimit
    /\ reqs = <<>> => request_count = IF started < DailyLimit THEN started ELSE DailyLimit
    /\ reqs # <<>> => /\ Len(reqs) = 1
                      /\ started <= DailyLimit
                      /\ request_count = started - 1
    /\ (started > DailyLimit /\ last.request_type = "chat")
          => /\ last.raised = DoneForTheDayException
             /\ last.backend = "none"
             /\ request_count = DailyLimit

C1_Witness ==
    /\ started = DailyLimit + 1
    /\ last.request_type = "chat"
    /\ last.raised = DoneForTheDayException
    /\ request_count = DailyLimit

\* C2: request_count never passes the daily limit, whatever requests are
\* suspended at the backend at the same time.
C2_CountNeverPassesLimit == request_count <= DailyLimit

\* C3: request_count equals the number of backend calls, of either kind,
\* that returned a response.
C3_CountEqualsDispatches == request_count = dispatched

\* C4: when the backend call of a text request fails, request_count and the
\* last_message of the user's stored Chat are what they were.
C4_FailedCallKeepsCountAndTimestamp ==
    [][\A i \in 1..Len(reqs), u \in Users :
          (reqs[i].username = u /\ ChatBackendFailed(i)) =>
             /\ request_count' = request_count
             /\ Session(u)'.last_message = Session(u).last_message]_vars

C4_Witness ==
    /\ last.request_type = "chat"
    /\ last.backend = "failed"
    /\ request_count = 1
    /\ Session(last.username).last_message # None
    /\ Session(last.username).last_message < now


\* The fields of the Chats in the dict, in the dict's order.
Stored(d, objs) == [j \in 1..Len(d) |-> objs[d[j].chat]]

\* C5 (as claimed): a text request that ends in a backend error leaves the
\* dict of chats as it was before the call: no Chat that a failed call created
\* for a user who had none is in the dict.
C5_FailedCallLeavesNoSession ==
    ~ /\ last.request_type = "chat"
      /\ last.backend = "failed"
      /\ last.created
      /\ get_chat_for_user(last.username) = last.chat

\* C5 (amended): a text request that ends in a backend error changes neither
\* request_count nor any stored Chat, and removes none; the one change the
\* call makes to the dict is made before the backend is called, where a user
\* who has no Chat gets a new one, with last_message unset, at the end of the
\* dict, and that Chat stays stored when the backend call fails.
C5_FailedCallKeepsCreatedSession ==
    [][/\ \A i \in 1..Len(reqs) :
            ChatBackendFailed(i) =>
               /\ request_count' = request_count
               /\ chats' = chats
               /\ Stored(chats, chatObjs)' = Stored(chats, chatObjs)
       /\ \A u \in Users :
            (\E p \in LongPromptLens : on_message(u, p, 0)) =>
               \/ chats' = chats /\ chatObjs' = chatObjs
               \/ /\ get_chat_for_user(u) = NoChat
                  /\ Len(chats') = Len(chats) + 1
                  /\ SubSeq(chats', 1, Len(chats)) = chats
                  /\ chats'[Len(chats')].key = u
                  /\ Session(u)'.last_message = None
                  /\ SubSeq(Stored(chats, chatObjs)', 1, Len(chats))
                        = Stored(chats, chatObjs)]_vars

C5_Witness ==
    /\ last.request_type = "chat"
    /\ last.backend = "failed"
    /\ last.created
    /\ get_chat_for_user(last.username) = last.chat
    /\ Session(last.username).last_message = None
    /\ request_count = 0

\* C6 (as claimed): when a text request returns the backend's answer, its
\* user has a Chat in the dict whose last_message is not older than the start
\* of the request.
C6_SuccessLeavesFreshSession ==
    [][\A i \in 1..Len(reqs), u \in Users, t \in FineInstants :
          (reqs[i].username = u /\ reqs[i].start_time = t /\ ChatBackendOk(i)) =>
             /\ get_chat_for_user(u)' # NoChat
             /\ Session(u)'.last_message # None
             /\ Session(u)'.last_message >= t]_vars

\* C6 (amended): when a text request returns the backend's answer, the dict
\* holds the same Chats as before; if the Chat the request used is still the
\* one stored for its user, its last_message is then not older than the start
\* of the request; if it was removed while the request was suspended, the
\* request does not store it again and changes no stored Chat.
C6_SuccessTouchesOnlyStoredSession ==
    [][\A i \in 1..Len(reqs), u \in Users, t \in FineInstants, c \in 1..Len(chatObjs) :
          (/\ reqs[i].username = u /\ reqs[i].start_time = t /\ reqs[i].chat = c
           /\ ChatBackendOk(i)) =>
             /\ chats' = chats
             /\ IF get_chat_for_user(u) = c
                THEN /\ Session(u)'.last_message = now
                     /\ Session(u)'.last_message >= t
                     /\ Session(u)'.creation_time = Session(u).creation_time
                ELSE Stored(chats, chatObjs)' = Stored(chats, chatObjs)]_vars

C6_Witness ==
    /\ last.request_type = "chat"
    /\ last.backend = "ok"
    /\ get_chat_for_user(last.username) = last.chat
    /\ Session(last.username).last_message = now
    /\ Session(last.username).last_message > last.start_time


\* No two entries of the dict share a key, and of the text requests suspended
\* for one user, those that started after the stored Chat was made use it.
OnePerUser ==
    /\ \A j, k \in 1..Len(chats) : chats[j].key = chats[k].key => j = k
    /\ \A i, k \in 1..Len(reqs) :
          (/\ reqs[i].pc = "backend" /\ reqs[k].pc = "backend"
           /\ reqs[i].request_type = "chat" /\ reqs[k].request_type = "chat"
           /\ reqs[i].username = reqs[k].username
           /\ get_chat_for_user(reqs[i].username) = reqs[i].chat)
             => k <= i \/ reqs[k].chat = reqs[i].chat

\* C7: the dict holds at most one Chat per user, and a stored Chat is never
\* replaced: while it is stored it keeps its session handle and creation
\* time, only a removal (member departure, erase_chats, the sweep) takes it
\* out, and every text request that starts for its user meanwhile uses that
\* same Chat, two requests suspended for the same user included.
C7_OneSessionPerUserNeverReplaced ==
    [][/\ OnePerUser'
       /\ \A u \in Users, c \in 1..Len(chatObjs) :
             get_chat_for_user(u) = c =>
                /\ get_chat_for_user(u)' \in {c, NoChat}
                /\ (started' # started \/ reqs' # reqs) => get_chat_for_user(u)' = c
                /\ get_chat_for_user(u)' = c =>
                      /\ chatObjs'[c].session = chatObjs[c].session
                      /\ chatObjs'[c].creation_time = chatObjs[c].creation_time
                      /\ chatObjs'[c].username = u
                /\ (/\ Len(reqs') = Len(reqs) + 1
                    /\ reqs'[Len(reqs')].request_type = "chat"
                    /\ reqs'[Len(reqs')].username = u)
                      => /\ reqs'[Len(reqs')].chat = c
                         /\ ~reqs'[Len(reqs')].created]_vars

C7_Witness ==
    /\ Len(reqs) = 2
    /\ reqs[1].request_type = "chat" /\ reqs[2].request_type = "chat"
    /\ reqs[1].username = reqs[2].username
    /\ reqs[1].created /\ ~reqs[2].created
    /\ reqs[1].chat = reqs[2].chat
    /\ get_chat_for_user(reqs[1].username) = reqs[1].chat
    /\ Len(chats) = 1

\* C8 (as claimed): no request whose prompt is empty or has 1000 characters
\* or more is ever suspended at the backend (or on the way to it).
C8_NoDispatchOutsidePromptRange ==
    \A i \in 1..Len(reqs) : reqs[i].prompt >= 1 /\ reqs[i].prompt < 1000

\* C8 (amended): no backend call is made for an empty prompt: the request is
\* answered "Invalid prompt" before anything else runs and changes neither
\* request_count nor the chats; a prompt of one character or more, the
\* lengths from 1000 up included, is not rejected by the prompt check.
C8_OnlyEmptyPromptRejected ==
    [][/\ \A i \in 1..Len(reqs') : reqs'[i].prompt >= 1
       /\ \A u \in Users, p \in LongPromptLens, a \in 0..2 :
             on_message(u, p, a) =>
                IF p = 0
                THEN /\ last'.reply = "Invalid prompt"
                     /\ last'.backend = "none"
                     /\ reqs' = reqs
                     /\ UNCHANGED <<request_count, dispatched, chats, chatObjs>>
                ELSE ~(reqs' = reqs /\ last'.reply = "Invalid prompt")]_vars

C8_Witness ==
    /\ last.reply = "Invalid prompt"
    /\ Len(reqs) = 1
    /\ reqs[1].prompt = 1000
    /\ reqs[1].backend = "pending"
    /\ request_count = 0

\* The idle time, in seconds, of a Chat that has a last_message.
Idle(chat) == now - chat.last_message

\* C9: a run of the sweep removes every Chat whose idle time exceeds the TTL
\* (chat_ttl hours), by however little.
C9_SweepRemovesEveryExpiredSession ==
    [][erase_old_chats =>
          \A j \in 1..Len(chats), u \in Users :
             (/\ chats[j].key = u
              /\ chatObjs[chats[j].chat].last_message # None
              /\ Idle(chatObjs[chats[j].chat]) > 3600 * ChatTtl)
                => get_chat_for_user(u)' = NoChat]_vars

\* C10: a run of the sweep removes no Chat whose idle time is at most the
\* TTL: it is still stored, with the same fields, after the run.
C10_SweepKeepsSessionsWithinTtl ==
    [][erase_old_chats =>
          \A j \in 1..Len(chats), u \in Users, c \in 1..Len(chatObjs) :
             (/\ chats[j].key = u /\ chats[j].chat = c
              /\ chatObjs[c].last_message # None
              /\ Idle(chatObjs[c]) <= 3600 * ChatTtl)
                => /\ get_chat_for_user(u)' = c
                   /\ chatObjs'[c] = chatObjs[c]]_vars

C10_Witness ==
    /\ last.request_type = "sweep"
    /\ last.raised = RuntimeError
    /\ Len(chats) = 1
    /\ chatObjs[chats[1].chat].last_message # None
    /\ Idle(chatObjs[chats[1].chat]) <= 3600 * ChatTtl
    /\ Idle(chatObjs[chats[1].chat]) > 0

\* C11: one run of the sweep examines every Chat that was in the dict when it
\* started: every Chat that the sweep's own test finds expired (idle for
\* chat_ttl + 1 whole hours) is removed by that run, however many there are
\* and whatever happened at the entries before it.
C11_SweepRemovesAllExpired ==
    [][erase_old_chats =>
          \A j \in 1..Len(chats), u \in Users :
             (/\ chats[j].key = u
              /\ chatObjs[chats[j].chat].last_message # None
              /\ Idle(chatObjs[chats[j].chat]) >= 3600 * (ChatTtl + 1))
                => get_chat_for_user(u)' = NoChat]_vars

\* C12: a stored Chat whose last_message is unset is measured from its
\* creation_time: the sweep removes it when that time lies chat_ttl + 1 whole
\* hours back or more, keeps it while it lies at most chat_ttl hours back,
\* and the run does not end in an error.
C12_SweepMeasuresUnsetFromCreation ==
    [][erase_old_chats =>
          \A j \in 1..Len(chats), u \in Users, c \in 1..Len(chatObjs) :
             (/\ chats[j].key = u /\ chats[j].chat = c
              /\ chatObjs[c].last_message = None)
                => /\ last'.raised = NoException
                   /\ now - chatObjs[c].creation_time >= 3600 * (ChatTtl + 1)
                         => get_chat_for_user(u)' = NoChat
                   /\ now - chatObjs[c].creation_time <= 3600 * ChatTtl
                         => get_chat_for_user(u)' = c]_vars

\* C13: every File made for an attachment request has been closed when the
\* request has ended, whichever way it ended.
C13_AttachmentAlwaysReleased ==
    (last.request_type = "vision" /\ last.file = "File") => last.closes >= 1

\* C14: a request, text or attachment, that the quota check rejects is
\* answered with the reply of on_message's DoneForTheDayException clause.
C14_QuotaRejectionRepliesDoneForTheDay ==
    last.raised = DoneForTheDayException
       => last.reply = "I am done for the day. Check back later."

\* C15: a request that the quota check rejects changes nothing: when a text
\* request ends at once, or an attachment request ends after its download,
\* with DoneForTheDayException, request_count, the dict and every Chat are
\* what they were; no Chat is made for a new user whose request is rejected.
C15_QuotaRejectionMutatesNothing ==
    [][(/\ last'.raised = DoneForTheDayException
        /\ \/ started' = started + 1 /\ reqs' = reqs
           \/ Len(reqs') = Len(reqs) - 1)
          => UNCHANGED <<request_count, chats, chatObjs>>]_vars

C15_Witness ==
    /\ last.raised = DoneForTheDayException
    /\ last.request_type = "chat"
    /\ get_chat_for_user(last.username) = NoChat
    /\ request_count = DailyLimit
    /\ chats # <<>>

\* A step of an attachment request: a suspended attachment task goes on or
\* ends, or a message with attachments starts a task or is answered at once.
AttachmentStep ==
    \/ \E i \in 1..Len(reqs) :
          /\ reqs[i].request_type = "vision"
          /\ \/ reqs' = RemoveAt(reqs, i)
             \/ Len(reqs') = Len(reqs) /\ reqs'[i] # reqs[i]
    \/ /\ started' = started + 1
       /\ \/ /\ Len(reqs') = Len(reqs) + 1
             /\ reqs'[Len(reqs')].request_type = "vision"
          \/ /\ reqs' = reqs
             /\ last'.reply = "Only one file can be processed at a time."

\* C16: no step of an attachment request (its start, the download and the
\* classification, the quota check, the backend's answer or failure)
\* changes the dict or any Chat, a stored Chat of the requesting user
\* included.
C16_AttachmentRequestLeavesSessionsAlone ==
    [][AttachmentStep => chats' = chats /\ chatObjs' = chatObjs]_vars

C16_Witness ==
    /\ last.request_type = "vision"
    /\ last.backend = "ok"
    /\ get_chat_for_user(last.username) # NoChat
    /\ Session(last.username).last_message # None
    /\ Session(last.username).last_message < now

\* C17 (as claimed): remove_all_chats on a dict of k Chats returns k and
\* leaves the dict empty.
C17_RemoveAllReturnsCount ==
    [][\A author \in Users :
          (author = Owner /\ erase_chats(author)) =>
             /\ remove_all_chats_returned(chats) = Len(chats)
             /\ chats' = <<>>]_vars

\* C17 (amended): remove_all_chats leaves the dict empty, so that no user has
\* a Chat after it, and returns None (the number removed is only logged); a
\* text request that was suspended during the call and is answered later
\* does not store its Chat again.
C17_RemoveAllEmptiesStoreReturnsNothing ==
    [][/\ \A author \in Users :
             (author = Owner /\ erase_chats(author)) =>
                /\ chats' = <<>>
                /\ \A u \in Users : get_chat_for_user(u)' = NoChat
                /\ remove_all_chats_returned(chats) = None
       /\ \A i \in 1..Len(reqs), u \in Users :
             (ChatBackendOk(i) /\ get_chat_for_user(u) = NoChat)
                => get_chat_for_user(u)' = NoChat]_vars

C17_Witness ==
    /\ last.request_type = "chat"
    /\ last.backend = "ok"
    /\ last.created
    /\ chats = <<>>
    /\ reqs = <<>>
    /\ dispatched = 2

\* C18: the counter is zeroed once every 24 hours, so a valid text request
\* that arrives 24 hours after the start, when no request has been counted
\* since (no Chat has a last_message of that day), is admitted, whatever was
\* counted or rejected the day before.
C18_ResetReadmitsNextDay ==
    [][\A u \in Users :
          (/\ on_message(u, 1, 0)
           /\ now >= 24 * 3600
           /\ \A c \in 1..Len(chatObjs) : chatObjs[c].last_message < 24 * 3600)
             => Len(reqs') = Len(reqs) + 1]_vars

\* C19: an attachment of an allowed type that has no decoder (audio, video)
\* ends with the FileProcessingException of get_file: no file value reaches
\* the agent and no backend call is made.
C19_UndecodableTypeFailsClosed ==
    (last.request_type = "vision" /\ last.content_type \in {"audio/mp3", "video/mp4"})
       => /\ last.raised.class = "FileProcessingException"
          /\ last.file = "unset"
          /\ last.backend = "none"

\* C20 (as claimed): a text request made while the quota is exhausted ends
\* with DoneForTheDayException whatever its prompt is, the empty prompt
\* included.
C20_QuotaCheckBeforePromptCheck ==
    [][\A u \in Users, p \in LongPromptLens :
          (~validate_request_limit /\ on_message(u, p, 0))
             => last'.raised = DoneForTheDayException]_vars

\* C20 (amended): the prompt check comes first.  While the quota is
\* exhausted a text request with an empty prompt is answered "Invalid prompt"
\* and raises nothing; with a prompt of one character or more, of any length,
\* it ends at once with DoneForTheDayException and no backend call.  For an
\* attachment request the download and get_file come before the quota check
\* too: it ends with get_file's exception if there is one, and with
\* DoneForTheDayException otherwise.
C20_PromptCheckBeforeQuotaCheck ==
    [][/\ \A u \in Users, p \in LongPromptLens :
             (~validate_request_limit /\ on_message(u, p, 0)) =>
                /\ started' = started + 1
                /\ reqs' = reqs
                /\ last'.backend = "none"
                /\ IF p = 0
                   THEN last'.reply = "Invalid prompt" /\ last'.raised = NoException
                   ELSE last'.raised = DoneForTheDayException
       /\ \A i \in 1..Len(reqs), ct \in ContentTypes, decodable \in BOOLEAN :
             (~validate_request_limit /\ ToFileOk(i, ct, decodable)) =>
                /\ Len(reqs') = Len(reqs) - 1
                /\ last'.backend = "none"
                /\ last'.raised = IF get_file(ct, decodable).raised # NoException
                                  THEN get_file(ct, decodable).raised
                                  ELSE DoneForTheDayException]_vars

C20_Witness ==
    /\ last.reply = "Invalid prompt"
    /\ last.raised = NoException
    /\ request_count = DailyLimit
    /\ dispatched = DailyLimit

\* C21: the write of last_message when a text request is answered never
\* stores a Chat: if the Chat the request used is no longer the one stored
\* for its user (it was removed while the request was suspended), the dict
\* and every stored Chat are the same after the answer as before it; a user
\* who had no Chat then still has none.
C21_TouchNeverCreatesSession ==
    [][\A i \in 1..Len(reqs), u \in Users :
          (/\ reqs[i].request_type = "chat" /\ reqs[i].pc = "backend"
           /\ reqs[i].username = u
           /\ get_chat_for_user(u) # reqs[i].chat
           /\ ChatBackendOk(i)) =>
             /\ chats' = chats
             /\ Stored(chats, chatObjs)' = Stored(chats, chatObjs)
             /\ get_chat_for_user(u) = NoChat => get_chat_for_user(u)' = NoChat]_vars

C21_Witness ==
    /\ last.request_type = "chat"
    /\ last.backend = "ok"
    /\ last.created
    /\ get_chat_for_user(last.username) = NoChat
    /\ \E u \in Users : get_chat_for_user(u) # NoChat
    /\ reqs = <<>>
    /\ started = 2


\* C22: the set_model command leaves the client, the dict of chats and
\* request_count as they were, and a text request of a user without a Chat
\* that is admitted afterwards is handed to the backend (it does not end in
\* process_chat_prompt with an AttributeError).
C22_SetModelKeepsClientUsable ==
    [][/\ \A author \in Users :
            set_chat_model(author) =>
                /\ client' = client
                /\ chats' = chats
                /\ request_count' = request_count
       /\ \A u \in Users :
            (/\ on_message(u, 1, 0)
             /\ validate_request_limit
             /\ get_chat_for_user(u) = NoChat) =>
                /\ Len(reqs') = Len(reqs) + 1
                /\ reqs'[Len(reqs')].pc = "backend"]_vars


\* C23: no attachment request calls File.close more than once on its File:
\* neither a suspended request nor the request that ended last has closed
\* its File twice.
C23_AttachmentReleasedAtMostOnce ==
    /\ \A i \in 1..Len(reqs) : reqs[i].closes <= 1
    /\ last.request_type = "vision" => last.closes <= 1

====
